---- MODULE Spec2Model ----
(***************************************************************************)
(* Two-power spherical potentials (TwoPowerSphericalPotential.py): the     *)
(* exponent-driven delegation through .integerSelf, the exponent setters   *)
(* of every class of the file, and the method each query resolves to.      *)
(*                                                                         *)
(* Exponents are fixed-point numbers stored as twice their value, so that  *)
(* 1.5 is 3 and 4 is 8; round() and int() are computed on that form.       *)
(* The result of a query names the formula that                            *)
(* was evaluated, the object that evaluated it (class, a, alpha, beta, how *)
(* many forwarding steps below the queried object) and the coordinates it  *)
(* was evaluated at, or the exception the call ends in.                    *)
(*                                                                         *)
(* obj is the instance the caller holds, last the latest call made on it   *)
(* and its outcome, threads the calls that concurrent callers have in      *)
(* progress on it, num the latest query whose number was worked out.       *)
(* Where a claim is about numbers, the named formula is worked out in      *)
(* exact rational arithmetic (section "values").                           *)
(***************************************************************************)
EXTENDS Integers, Sequences, FiniteSets, TLC

VARIABLES obj, last, threads, num

vars == <<obj, last, threads, num>>

(* ------------------------------ bounds -------------------------------- *)

MaxA == 2

\* the concentrations offered to rvir are k^3 / 100 for k up to MaxRootStep
MaxRootStep == 25

MaxAmp == 2

(* --------------------------- value domains ----------------------------- *)

\* whole + halves/2 in the stored form
Exp(whole, halves) == 2 * whole + halves

AlphaVals == {Exp(0, -1), Exp(0, 0), Exp(0, 1), Exp(1, 0), Exp(1, 1), Exp(2, 0), Exp(2, 1)}

BetaVals == {Exp(3, 0), Exp(3, 1), Exp(4, 0), Exp(4, 1), Exp(5, 0)}

ExpVals == AlphaVals \cup BetaVals

AVals == 1..MaxA

AmpVals == 1..MaxAmp

\* the (R, z) a query is made at
Points == {<<1, 0 - 1>>, <<0, 1>>}

\* _forceFloatEval as a caller passes it: not at all, or by keyword as True
FlagVals == {"absent", "True"}

Queries == {"_evaluate", "_Rforce", "_zforce", "_dens", "_mass",
            "_R2deriv", "_z2deriv", "_Rzderiv", "_surfdens"}

(* ------------------------- Python number helpers ----------------------- *)

\* round(x): to the nearest integer, a tie to the even one
py_round(x) ==
  IF x % 2 = 0 THEN x
  ELSE LET k == (x - 1) \div 2 IN IF k % 2 = 0 THEN 2 * k ELSE 2 * (k + 1)

\* int(x): truncation towards zero
py_int(x) == IF x >= 0 THEN 2 * (x \div 2) ELSE 0 - 2 * ((0 - x) \div 2)

\* numpy.fabs
fabs(x) == IF x < 0 THEN 0 - x ELSE x

(* ------------------------------ objects -------------------------------- *)

None == [cls |-> "None"]

IsNone(o) == o.cls = "None"

RECURSIVE TwoPowerInteger_init(_, _, _, _)

\* TwoPowerSphericalPotential.__init__, run for an object of class cls
TwoPower_init(cls, amp, a, alpha, beta) ==
  [cls |-> cls, amp |-> amp, a |-> a, alpha |-> alpha, beta |-> beta,
   integerSelf |->
     IF cls = "TwoPower" /\ alpha = py_round(alpha) /\ beta = py_round(beta)
     THEN TwoPowerInteger_init(1, a, py_round(alpha), py_round(beta))
     ELSE None]

\* DehnenSphericalPotential.__init__, run for an object of class cls
Dehnen_init(cls, amp, a, alpha) ==
  LET self == TwoPower_init(cls, amp, a, alpha, Exp(4, 0))
  IN [self EXCEPT !.integerSelf =
        IF cls = "Dehnen" /\ alpha = py_round(alpha)
        THEN TwoPowerInteger_init(1, a, py_round(alpha), Exp(4, 0))
        ELSE None]

Hernquist_init(amp, a) == Dehnen_init("Hernquist", amp, a, Exp(1, 0))

Jaffe_init(amp, a) == Dehnen_init("Jaffe", amp, a, Exp(2, 0))

NFW_init(amp, a) == TwoPower_init("NFW", amp, a, Exp(1, 0), Exp(3, 0))

\* mutant: the (1,4) pair is not recognised as Hernquist
TwoPowerInteger_init_noHernquist(amp, a, alpha, beta) ==
  [cls |-> "Integer", amp |-> amp, a |-> a, alpha |-> alpha, beta |-> beta,
   integerSelf |->
     IF alpha = Exp(2, 0) /\ beta = Exp(4, 0) THEN Jaffe_init(1, a)
     ELSE IF alpha = Exp(1, 0) /\ beta = Exp(3, 0) THEN NFW_init(1, a)
     ELSE None]

TwoPowerInteger_init(amp, a, alpha, beta) ==
  [cls |-> "Integer", amp |-> amp, a |-> a, alpha |-> alpha, beta |-> beta,
   integerSelf |->
     IF alpha = Exp(1, 0) /\ beta = Exp(4, 0) THEN Hernquist_init(1, a)
     ELSE IF alpha = Exp(2, 0) /\ beta = Exp(4, 0) THEN Jaffe_init(1, a)
     ELSE IF alpha = Exp(1, 0) /\ beta = Exp(3, 0) THEN NFW_init(1, a)
     ELSE None]

(* --------------------------- exponent setters -------------------------- *)

\* what a setter call leaves behind: the object, and the exception or ""
Done(self) == [obj |-> self, err |-> ""]

Raise(self, e) == [obj |-> self, err |-> e]

\* mutant: alpha is stored and the binding is left as it was
TwoPower_alpha_setter_stale(self, alpha) == [obj |-> [self EXCEPT !.alpha = alpha], err |-> ""]

TwoPower_alpha_setter(self, alpha) ==
  LET s == [self EXCEPT !.alpha = alpha]
  IN Done([s EXCEPT !.integerSelf =
        IF alpha = py_round(alpha) /\ s.beta = py_round(s.beta)
        THEN TwoPowerInteger_init(1, s.a, py_round(alpha), py_round(s.beta))
        ELSE None])

TwoPower_beta_setter(self, beta) ==
  LET s == [self EXCEPT !.beta = beta]
  IN Done([s EXCEPT !.integerSelf =
        IF s.alpha = py_round(s.alpha) /\ beta = py_round(beta)
        THEN TwoPowerInteger_init(1, s.a, py_round(s.alpha), py_round(beta))
        ELSE None])

\* mutant: alpha is stored and the binding is left as it was
Dehnen_alpha_setter_stale(self, alpha) == Done([self EXCEPT !.alpha = alpha])

Dehnen_alpha_setter(self, alpha) ==
  LET s == [self EXCEPT !.alpha = alpha]
  IN Done([s EXCEPT !.integerSelf =
        IF alpha = py_round(alpha)
        THEN TwoPowerInteger_init(1, s.a, py_round(alpha), Exp(4, 0))
        ELSE None])

\* mutant: the override is missing, so the inherited setter stores the value
Dehnen_beta_setter_inherited(self, value) == TwoPower_beta_setter(self, value)

Dehnen_beta_setter(self, value) == Raise(self, "Exception")

\* mutant: a non-integer alpha is truncated and stored
TwoPowerInteger_alpha_setter_truncating(self, alpha) ==
  [obj |-> [self EXCEPT !.alpha = py_int(alpha),
                        !.integerSelf = TwoPowerInteger_init(1, self.a, py_int(alpha), py_int(self.beta))],
   err |-> ""]

\* mutant: the new evaluator is not built, the object is bound below itself
TwoPowerInteger_alpha_setter_nesting(self, alpha) ==
  IF alpha # py_int(alpha) THEN Raise(self, "ValueError")
  ELSE LET s == [self EXCEPT !.alpha = py_int(alpha)]
       IN Done([s EXCEPT !.integerSelf = s])

TwoPowerInteger_alpha_setter(self, alpha) ==
  IF alpha # py_int(alpha) THEN Raise(self, "ValueError")
  ELSE LET s == [self EXCEPT !.alpha = py_int(alpha)]
       IN Done([s EXCEPT !.integerSelf =
             IF alpha = py_int(alpha) /\ s.beta = py_int(s.beta)
             THEN TwoPowerInteger_init(1, s.a, py_int(alpha), py_int(s.beta))
             ELSE None])

\* mutant: beta is stored and the binding is left as it was
TwoPowerInteger_beta_setter_stale(self, beta) ==
  IF beta # py_int(beta) THEN Raise(self, "ValueError")
  ELSE Done([self EXCEPT !.beta = py_int(beta)])

TwoPowerInteger_beta_setter(self, beta) ==
  IF beta # py_int(beta) THEN Raise(self, "ValueError")
  ELSE LET s == [self EXCEPT !.beta = py_int(beta)]
       IN Done([s EXCEPT !.integerSelf =
             IF s.alpha = py_int(s.alpha) /\ beta = py_int(beta)
             THEN TwoPowerInteger_init(1, s.a, py_int(s.alpha), py_int(beta))
             ELSE None])

Hernquist_alpha_setter(self, value) == Raise(self, "Exception")

Hernquist_beta_setter(self, value) == Raise(self, "Exception")

Jaffe_alpha_setter(self, value) == Raise(self, "Exception")

Jaffe_beta_setter(self, value) == Raise(self, "Exception")

\* mutant: the override is missing, so the inherited setter stores the value
NFW_alpha_setter_inherited(self, value) == TwoPower_alpha_setter(self, value)

NFW_alpha_setter(self, value) == Raise(self, "Exception")

NFW_beta_setter(self, value) == Raise(self, "Exception")

\* obj.alpha = value, by the class of obj
alpha_setter(self, value) ==
  CASE self.cls = "TwoPower" -> TwoPower_alpha_setter(self, value)
    [] self.cls = "Dehnen" -> Dehnen_alpha_setter(self, value)
    [] self.cls = "Integer" -> TwoPowerInteger_alpha_setter(self, value)
    [] self.cls = "Hernquist" -> Hernquist_alpha_setter(self, value)
    [] self.cls = "Jaffe" -> Jaffe_alpha_setter(self, value)
    [] self.cls = "NFW" -> NFW_alpha_setter(self, value)

\* obj.beta = value, by the class of obj
beta_setter(self, value) ==
  CASE self.cls = "TwoPower" -> TwoPower_beta_setter(self, value)
    [] self.cls = "Dehnen" -> Dehnen_beta_setter(self, value)
    [] self.cls = "Integer" -> TwoPowerInteger_beta_setter(self, value)
    [] self.cls = "Hernquist" -> Hernquist_beta_setter(self, value)
    [] self.cls = "Jaffe" -> Jaffe_beta_setter(self, value)
    [] self.cls = "NFW" -> NFW_beta_setter(self, value)

\* mutant: assigning a drops the binding
a_assign_unbinding(self, value) == [self EXCEPT !.a = value, !.integerSelf = None]

\* obj.a = value: a is a plain attribute, nothing else is touched
a_assign(self, value) == [self EXCEPT !.a = value]

\* the amplitude is kept by the base class; the file never reads it
amp_assign(self, value) == [self EXCEPT !.amp = value]

(* ------------------------------- queries ------------------------------- *)

\* the class statement each class derives from
Parent(cls) ==
  CASE cls = "TwoPower" -> "Potential"
    [] cls = "Dehnen" -> "TwoPower"
    [] cls = "Integer" -> "TwoPower"
    [] cls = "Hernquist" -> "Dehnen"
    [] cls = "Jaffe" -> "Dehnen"
    [] cls = "NFW" -> "TwoPower"

\* the query methods each class body defines (commented-out code defines none)
Defines(cls) ==
  CASE cls = "TwoPower" ->
         {"_evaluate", "_Rforce", "_zforce", "_z2deriv", "_dens", "_mass"}
    [] cls = "Dehnen" -> {"_R2deriv", "_z2deriv", "_Rzderiv"}
    [] cls = "Integer" -> {"_evaluate", "_Rforce", "_zforce", "_R2deriv"}
    [] cls \in {"Hernquist", "Jaffe", "NFW"} ->
         {"_evaluate", "_Rforce", "_zforce", "_R2deriv", "_Rzderiv",
          "_surfdens", "_mass"}

\* the methods whose signature has the _forceFloatEval keyword
AcceptsFlag(cls, q) ==
  \/ cls = "TwoPower" /\ q \in {"_evaluate", "_Rforce", "_zforce", "_z2deriv"}
  \/ cls = "Dehnen" /\ q = "_R2deriv"
  \/ cls = "NFW" /\ q = "_R2deriv"

RECURSIVE Lookup(_, _)

\* attribute lookup along the method resolution order; "Potential" when no
\* class of the file defines q
Lookup(cls, q) ==
  IF cls = "Potential" THEN "Potential"
  ELSE IF q \in Defines(cls) THEN cls
  ELSE Lookup(Parent(cls), q)

Blank ==
  [kind |-> "none", err |-> "", cls |-> "None", formula |-> "", a |-> 0,
   alpha |-> 0, beta |-> 0, R |-> 0, z |-> 0, depth |-> 0]

\* a closed form of class body `formula`, evaluated on self at (R, z)
Val(self, formula, R, z, depth) ==
  [kind |-> "value", err |-> "", cls |-> self.cls, formula |-> formula,
   a |-> self.a, alpha |-> self.alpha, beta |-> self.beta,
   R |-> R, z |-> z, depth |-> depth]

Err(e) == [Blank EXCEPT !.kind = "error", !.err = e]

RECURSIVE Call(_, _, _, _, _, _)

\* target.q(extra, R, z, phi=phi, t=t): one positional argument too many,
\* so phi is given twice; an undefined q fails at the attribute lookup
CallWithExtraPositional(target, q) ==
  IF Lookup(target.cls, q) = "Potential" THEN Err("AttributeError")
  ELSE Err("TypeError")

\* mutant: without the beta == 3 branch
TwoPower_evaluate_no_beta3(self, R, z, flag, depth) ==
  IF flag # "True" /\ ~IsNone(self.integerSelf)
  THEN Call(self.integerSelf, "_evaluate", R, z, "absent", depth + 1)
  ELSE Val(self, "TwoPower._evaluate:general", R, z, depth)

TwoPower_evaluate(self, R, z, flag, depth) ==
  IF flag # "True" /\ ~IsNone(self.integerSelf)
  THEN Call(self.integerSelf, "_evaluate", R, z, "absent", depth + 1)
  ELSE IF self.beta = Exp(3, 0)
  THEN Val(self, "TwoPower._evaluate:beta3", R, z, depth)
  ELSE Val(self, "TwoPower._evaluate:general", R, z, depth)

TwoPower_Rforce(self, R, z, flag, depth) ==
  IF flag # "True" /\ ~IsNone(self.integerSelf)
  THEN Call(self.integerSelf, "_Rforce", R, z, "absent", depth + 1)
  ELSE Val(self, "TwoPower._Rforce", R, z, depth)

TwoPower_zforce(self, R, z, flag, depth) ==
  IF flag # "True" /\ ~IsNone(self.integerSelf)
  THEN Call(self.integerSelf, "_zforce", R, z, "absent", depth + 1)
  ELSE Val(self, "TwoPower._zforce", R, z, depth)

\* self._R2deriv(numpy.fabs(z), R, ..., _forceFloatEval=_forceFloatEval):
\* the keyword is always passed on
TwoPower_z2deriv(self, R, z, flag, depth) ==
  Call(self, "_R2deriv", fabs(z), R, IF flag = "True" THEN "True" ELSE "False",
       depth)

TwoPower_dens(self, R, z, depth) == Val(self, "TwoPower._dens", R, z, depth)

TwoPower_mass(self, R, z, depth) == Val(self, "TwoPower._mass", R, z, depth)

Dehnen_R2deriv(self, R, z, flag, depth) ==
  IF flag # "True" /\ ~IsNone(self.integerSelf)
  THEN CallWithExtraPositional(self.integerSelf, "_R2deriv")
  ELSE Val(self, "Dehnen._R2deriv", R, z, depth)

Dehnen_z2deriv(self, R, z, depth) == Val(self, "Dehnen._z2deriv", R, z, depth)

Dehnen_Rzderiv(self, R, z, depth) ==
  IF ~IsNone(self.integerSelf)
  THEN CallWithExtraPositional(self.integerSelf, "_Rzderiv")
  ELSE Val(self, "Dehnen._Rzderiv", R, z, depth)

TwoPowerInteger_evaluate(self, R, z, depth) ==
  IF ~IsNone(self.integerSelf)
  THEN Call(self.integerSelf, "_evaluate", R, z, "absent", depth + 1)
  ELSE TwoPower_evaluate(self, R, z, "True", depth)

TwoPowerInteger_Rforce(self, R, z, depth) ==
  IF ~IsNone(self.integerSelf)
  THEN Call(self.integerSelf, "_Rforce", R, z, "absent", depth + 1)
  ELSE TwoPower_Rforce(self, R, z, "True", depth)

TwoPowerInteger_zforce(self, R, z, depth) ==
  IF ~IsNone(self.integerSelf)
  THEN Call(self.integerSelf, "_zforce", R, z, "absent", depth + 1)
  ELSE TwoPower_zforce(self, R, z, "True", depth)

TwoPowerInteger_R2deriv(self, R, z, depth) ==
  IF ~IsNone(self.integerSelf)
  THEN Call(self.integerSelf, "_R2deriv", R, z, "absent", depth + 1)
  ELSE Val(self, "TwoPowerInteger._R2deriv", R, z, depth)

\* HernquistPotential, JaffePotential and NFWPotential: every method they
\* define is a closed form on self
Elementary_method(self, q, R, z, depth) ==
  Val(self, self.cls \o "." \o q, R, z, depth)

\* self.q(R, z, phi=phi, t=t) with _forceFloatEval passed as `flag`
Call(self, q, R, z, flag, depth) ==
  LET d == Lookup(self.cls, q)
  IN IF d = "Potential" THEN Err("AttributeError")
     ELSE IF flag # "absent" /\ ~AcceptsFlag(d, q) THEN Err("TypeError")
     ELSE CASE d = "TwoPower" /\ q = "_evaluate" -> TwoPower_evaluate(self, R, z, flag, depth)
            [] d = "TwoPower" /\ q = "_Rforce" -> TwoPower_Rforce(self, R, z, flag, depth)
            [] d = "TwoPower" /\ q = "_zforce" -> TwoPower_zforce(self, R, z, flag, depth)
            [] d = "TwoPower" /\ q = "_z2deriv" -> TwoPower_z2deriv(self, R, z, flag, depth)
            [] d = "TwoPower" /\ q = "_dens" -> TwoPower_dens(self, R, z, depth)
            [] d = "TwoPower" /\ q = "_mass" -> TwoPower_mass(self, R, z, depth)
            [] d = "Dehnen" /\ q = "_R2deriv" -> Dehnen_R2deriv(self, R, z, flag, depth)
            [] d = "Dehnen" /\ q = "_z2deriv" -> Dehnen_z2deriv(self, R, z, depth)
            [] d = "Dehnen" /\ q = "_Rzderiv" -> Dehnen_Rzderiv(self, R, z, depth)
            [] d = "Integer" /\ q = "_evaluate" -> TwoPowerInteger_evaluate(self, R, z, depth)
            [] d = "Integer" /\ q = "_Rforce" -> TwoPowerInteger_Rforce(self, R, z, depth)
            [] d = "Integer" /\ q = "_zforce" -> TwoPowerInteger_zforce(self, R, z, depth)
            [] d = "Integer" /\ q = "_R2deriv" -> TwoPowerInteger_R2deriv(self, R, z, depth)
            [] d \in {"Hernquist", "Jaffe", "NFW"} -> Elementary_method(self, q, R, z, depth)

\* mutant: a query made with the flag set drops the binding
query_effect_unbinding(self, q, flag) ==
  IF flag = "True" THEN [self EXCEPT !.integerSelf = None] ELSE self

\* the object a query leaves behind: no query body assigns to self
query_effect(self, q, flag) == self

(* ------------------------------- values -------------------------------- *)

\* The number a closed form evaluates to, in exact arithmetic: a float is a
\* rational <<n, d>> in lowest terms with d > 0, a coordinate likewise, and
\* a value is q + c * ln(x) for rationals q, c, x, which is the shape every
\* elementary formula of the file has.

Abs(n) == IF n < 0 THEN 0 - n ELSE n

RECURSIVE GCD(_, _)

GCD(m, n) == IF n = 0 THEN m ELSE GCD(n, m % n)

Rat(n, d) ==
  LET s == IF d < 0 THEN 0 - 1 ELSE 1
      g == GCD(Abs(n), Abs(d))
  IN <<(s * n) \div g, (s * d) \div g>>

Zero == Rat(0, 1)

One == Rat(1, 1)

RAdd(x, y) == Rat(x[1] * y[2] + y[1] * x[2], x[2] * y[2])

RNeg(x) == <<0 - x[1], x[2]>>

RSub(x, y) == RAdd(x, RNeg(y))

RMul(x, y) == Rat(x[1] * y[1], x[2] * y[2])

\* x / y for y # 0
RDiv(x, y) == Rat(x[1] * y[2], x[2] * y[1])

RECURSIVE RPow(_, _)

\* x ** k for an integer k
RPow(x, k) ==
  IF k = 0 THEN One
  ELSE IF k < 0 THEN RDiv(One, RPow(x, 0 - k))
  ELSE RMul(x, RPow(x, k - 1))

\* x ** e for an exponent e in the stored (doubled) form, whole e only
pow(x, e) == CASE e % 2 = 0 -> RPow(x, e \div 2)

\* an exponent in the stored (doubled) form as a number
ExpNum(e) == Rat(e, 2)

Isqrt(n) == CHOOSE k \in 0..n : k * k = n

\* sqrt of a rational square
sqrt(x) == <<Isqrt(x[1]), Isqrt(x[2])>>

\* z is None
NoneZ == <<0, 0>>

\* sqrt(R**2.+z**2.)
Radius(R, z) == sqrt(RAdd(RMul(R, R), RMul(z, z)))

\* mutant: the cylindrical radius whatever z is
MassRadius_cylindrical(R, z) == IF z = NoneZ THEN R ELSE R

\* r= R if z is None else sqrt(R**2.+z**2.)
MassRadius(R, z) == IF z = NoneZ THEN R ELSE Radius(R, z)

RECURSIVE Factorial(_)

Factorial(n) == IF n = 0 THEN 1 ELSE n * Factorial(n - 1)

\* scipy.special.gamma at an exponent in the stored form: the positive
\* whole numbers
Gamma(e) == CASE e % 2 = 0 /\ e > 0 -> Rat(Factorial(e \div 2 - 1), 1)

\* scipy.special.hyp2f1(a, b, c, x) for exponents in the stored form: the
\* case b = c with a whole a, where the series is (1 - x) ** (-a)
hyp2f1(a, b, c, x) ==
  CASE b = c /\ a % 2 = 0 -> RPow(RSub(One, x), 0 - (a \div 2))

\* a value q + c * ln(x); ln(1) = 0 is kept as c = 0, x = 1
V(q) == [rat |-> q, lnc |-> Zero, lnarg |-> One]

NoValue == [rat |-> NoneZ, lnc |-> NoneZ, lnarg |-> NoneZ]

\* numpy.log(x)
log(x) == IF x = One THEN V(Zero) ELSE [rat |-> Zero, lnc |-> One, lnarg |-> x]

VMul(v, q) ==
  IF RMul(v.lnc, q) = Zero THEN V(RMul(v.rat, q))
  ELSE [rat |-> RMul(v.rat, q), lnc |-> RMul(v.lnc, q), lnarg |-> v.lnarg]

VDiv(v, q) == VMul(v, RDiv(One, q))

VNeg(v) == VMul(v, RNeg(One))

\* v + w where at most one logarithm, or the same one twice, is involved
VAdd(v, w) ==
  CASE w.lnc = Zero -> [v EXCEPT !.rat = RAdd(v.rat, w.rat)]
    [] v.lnc = Zero /\ w.lnc # Zero -> [w EXCEPT !.rat = RAdd(v.rat, w.rat)]
    [] v.lnc # Zero /\ w.lnc # Zero /\ v.lnarg = w.lnarg ->
         IF RAdd(v.lnc, w.lnc) = Zero THEN V(RAdd(v.rat, w.rat))
         ELSE [rat |-> RAdd(v.rat, w.rat), lnc |-> RAdd(v.lnc, w.lnc),
               lnarg |-> v.lnarg]

VSub(v, w) == VAdd(v, VNeg(w))

\* TwoPowerSphericalPotential._evaluate, the beta == 3 form
TwoPower_evaluate_beta3_value(a, alpha, beta, R, z) ==
  LET r == Radius(R, z)
      three == Exp(3, 0)
  IN V(RDiv(RDiv(
       RMul(RDiv(One, a),
            RSub(r, RMul(RDiv(RMul(a, pow(RDiv(r, a), three - alpha)),
                              ExpNum(three - alpha)),
                         hyp2f1(three - alpha, Exp(2, 0) - alpha,
                                Exp(4, 0) - alpha, RNeg(RDiv(r, a)))))),
       ExpNum(alpha - Exp(2, 0))), r))

\* TwoPowerSphericalPotential._evaluate, the form with Gamma(beta-3.)
TwoPower_evaluate_general_value(a, alpha, beta, R, z) ==
  LET r == Radius(R, z)
      three == Exp(3, 0)
      one == Exp(1, 0)
  IN V(RDiv(
       RMul(Gamma(beta - three),
            RSub(RMul(RDiv(pow(RDiv(r, a), three - beta), Gamma(beta - one)),
                      hyp2f1(beta - three, beta - alpha, beta - one,
                             RNeg(RDiv(a, r)))),
                 RDiv(Gamma(three - alpha), Gamma(beta - alpha)))),
       r))

\* -x/r**alpha*a**(alpha-3.)/(3.-alpha)*hyp2f1(...), x being R or z
TwoPower_force_value(a, alpha, beta, x, R, z) ==
  LET r == Radius(R, z)
      three == Exp(3, 0)
  IN V(RMul(RDiv(RMul(RDiv(RNeg(x), pow(r, alpha)), pow(a, alpha - three)),
                 ExpNum(three - alpha)),
            hyp2f1(three - alpha, beta - alpha, Exp(4, 0) - alpha,
                   RNeg(RDiv(r, a)))))

\* TwoPowerSphericalPotential._mass
TwoPower_mass_value(a, alpha, beta, R, z) ==
  LET r == MassRadius(R, z)
      three == Exp(3, 0)
  IN V(RMul(RDiv(pow(RDiv(r, a), three - alpha), ExpNum(three - alpha)),
            hyp2f1(three - alpha, beta - alpha, Exp(4, 0) - alpha,
                   RNeg(RDiv(r, a)))))

\* mutant: without the division by 2
Hernquist_evaluate_value_unhalved(a, R, z) ==
  V(RDiv(RDiv(RNeg(One), RAdd(One, RDiv(Radius(R, z), a))), a))

\* HernquistPotential._evaluate
Hernquist_evaluate_value(a, R, z) ==
  V(RDiv(RDiv(RDiv(RNeg(One), RAdd(One, RDiv(Radius(R, z), a))), Rat(2, 1)), a))

\* HernquistPotential._Rforce and _zforce, x being R or z
Hernquist_force_value(a, x, R, z) ==
  LET r == Radius(R, z)
  IN V(RDiv(RDiv(RDiv(RDiv(RDiv(RNeg(x), a), r),
                      RPow(RAdd(One, RDiv(r, a)), 2)), Rat(2, 1)), a))

\* HernquistPotential._mass
Hernquist_mass_value(a, R, z) ==
  LET r == MassRadius(R, z)
  IN V(RDiv(RDiv(RPow(RDiv(r, a), 2), Rat(2, 1)),
            RPow(RAdd(One, RDiv(r, a)), 2)))

\* JaffePotential._evaluate
Jaffe_evaluate_value(a, R, z) ==
  VDiv(VNeg(log(RAdd(One, RDiv(a, Radius(R, z))))), a)

\* JaffePotential._Rforce and _zforce, x being R or z
Jaffe_force_value(a, x, R, z) ==
  LET sqrtRz == Radius(R, z)
  IN V(RDiv(RDiv(RNeg(x), RPow(sqrtRz, 3)), RAdd(One, RDiv(a, sqrtRz))))

\* JaffePotential._mass
Jaffe_mass_value(a, R, z) ==
  LET r == MassRadius(R, z)
  IN V(RDiv(RDiv(r, a), RAdd(One, RDiv(r, a))))

\* mutant: the logarithm of r/a
NFW_evaluate_value_without_one(a, R, z) ==
  LET r == Radius(R, z)
  IN VDiv(VNeg(log(RDiv(r, a))), r)

\* NFWPotential._evaluate
NFW_evaluate_value(a, R, z) ==
  LET r == Radius(R, z)
  IN VDiv(VNeg(log(RAdd(One, RDiv(r, a)))), r)

\* NFWPotential._Rforce and _zforce, x being R or z
NFW_force_value(a, x, R, z) ==
  LET Rz == RAdd(RMul(R, R), RMul(z, z))
      sqrtRz == sqrt(Rz)
  IN VMul(VSub(V(RDiv(RDiv(One, Rz), RAdd(a, sqrtRz))),
               VDiv(VDiv(log(RAdd(One, RDiv(sqrtRz, a))), sqrtRz), Rz)), x)

\* NFWPotential._mass
NFW_mass_value(a, R, z) ==
  LET r == MassRadius(R, z)
  IN VSub(log(RAdd(One, RDiv(r, a))),
          V(RDiv(RDiv(r, a), RAdd(One, RDiv(r, a)))))

\* the number the formula named in a query's result evaluates to
Value(res) ==
  LET a == Rat(res.a, 1)
      f == res.formula
  IN CASE f = "TwoPower._evaluate:beta3" ->
            TwoPower_evaluate_beta3_value(a, res.alpha, res.beta, res.R, res.z)
       [] f = "TwoPower._evaluate:general" ->
            TwoPower_evaluate_general_value(a, res.alpha, res.beta, res.R, res.z)
       [] f = "TwoPower._Rforce" ->
            TwoPower_force_value(a, res.alpha, res.beta, res.R, res.R, res.z)
       [] f = "TwoPower._zforce" ->
            TwoPower_force_value(a, res.alpha, res.beta, res.z, res.R, res.z)
       [] f = "TwoPower._mass" ->
            TwoPower_mass_value(a, res.alpha, res.beta, res.R, res.z)
       [] f = "Hernquist._evaluate" -> Hernquist_evaluate_value(a, res.R, res.z)
       [] f = "Hernquist._Rforce" -> Hernquist_force_value(a, res.R, res.R, res.z)
       [] f = "Hernquist._zforce" -> Hernquist_force_value(a, res.z, res.R, res.z)
       [] f = "Hernquist._mass" -> Hernquist_mass_value(a, res.R, res.z)
       [] f = "Jaffe._evaluate" -> Jaffe_evaluate_value(a, res.R, res.z)
       [] f = "Jaffe._Rforce" -> Jaffe_force_value(a, res.R, res.R, res.z)
       [] f = "Jaffe._zforce" -> Jaffe_force_value(a, res.z, res.R, res.z)
       [] f = "Jaffe._mass" -> Jaffe_mass_value(a, res.R, res.z)
       [] f = "NFW._evaluate" -> NFW_evaluate_value(a, res.R, res.z)
       [] f = "NFW._Rforce" -> NFW_force_value(a, res.R, res.R, res.z)
       [] f = "NFW._zforce" -> NFW_force_value(a, res.z, res.R, res.z)
       [] f = "NFW._mass" -> NFW_mass_value(a, res.R, res.z)

\* x <= y
RLeq(x, y) == x[1] * y[2] <= y[1] * x[2]

\* the ends of the interval rvir hands to the root finder: 0.01 and 100.
BracketLo == Rat(1, 100)

BracketHi == Rat(100, 1)

\* scipy.optimize.brentq(f, lo, hi) for rvir's f, which decreases from
\* +infinity and has its one zero at ystar (Zero: f has no zero, as when
\* dc is not positive): f(lo) and f(hi) have the same sign unless
\* lo <= ystar <= hi, and brentq then raises ValueError; otherwise the
\* zero is returned
brentq(ystar, lo, hi) ==
  IF ystar # Zero /\ RLeq(lo, ystar) /\ RLeq(ystar, hi)
  THEN [err |-> "", x |-> ystar]
  ELSE [err |-> "ValueError", x |-> NoneZ]

\* mutant: a failed search is repeated on an interval ten times wider
NFW_rvir_retrying(self, ystar) ==
  LET s == brentq(ystar, BracketLo, BracketHi)
      t == brentq(ystar, RDiv(BracketLo, Rat(10, 1)), RMul(BracketHi, Rat(10, 1)))
  IN IF s.err = ""
     THEN [obj |-> self, err |-> "", x |-> s.x,
           val |-> V(RMul(s.x, Rat(self.a, 1))), calls |-> 1]
     ELSE IF t.err = ""
     THEN [obj |-> self, err |-> "", x |-> t.x,
           val |-> V(RMul(t.x, Rat(self.a, 1))), calls |-> 2]
     ELSE [obj |-> self, err |-> t.err, x |-> NoneZ, val |-> NoValue, calls |-> 2]

\* NFWPotential.rvir: x= optimize.brentq(..., 0.01, 100.); return x*self.a.
\* ystar stands for what H, Om, overdens and the density at a make of f.
NFW_rvir(self, ystar) ==
  LET s == brentq(ystar, BracketLo, BracketHi)
  IN IF s.err = ""
     THEN [obj |-> self, err |-> "", x |-> s.x,
           val |-> V(RMul(s.x, Rat(self.a, 1))), calls |-> 1]
     ELSE [obj |-> self, err |-> s.err, x |-> NoneZ, val |-> NoValue, calls |-> 1]

(* --------------------------- state machine ----------------------------- *)

NoLast ==
  [op |-> "init", arg |-> 0, R |-> 0, z |-> 0, flag |-> "absent", res |-> Blank]

SetterRes(err) ==
  IF err = "" THEN [Blank EXCEPT !.kind = "ok"] ELSE Err(err)

Constructed ==
  {TwoPower_init("TwoPower", amp, a, al, be) :
     amp \in AmpVals, a \in AVals, al \in AlphaVals, be \in BetaVals}
  \cup {Dehnen_init("Dehnen", amp, a, al) :
     amp \in AmpVals, a \in AVals, al \in AlphaVals}
  \cup {TwoPowerInteger_init(amp, a, al, be) :
     amp \in AmpVals, a \in AVals, al \in AlphaVals, be \in BetaVals}
  \cup {Hernquist_init(amp, a) : amp \in AmpVals, a \in AVals}
  \cup {Jaffe_init(amp, a) : amp \in AmpVals, a \in AVals}
  \cup {NFW_init(amp, a) : amp \in AmpVals, a \in AVals}

\* the callers of the concurrent scenario
Threads == {"t1", "t2"}

\* a caller with no call in progress
IdleThread ==
  [pc |-> "idle", q |-> "", R |-> 0, z |-> 0, flag |-> "absent",
   alone |-> Blank, before |-> None, res |-> Blank]

NoThreads == [t \in Threads |-> IdleThread]

\* no query evaluated to a number yet
NoNum ==
  [q |-> "", flag |-> "absent", res |-> Blank, val |-> NoValue,
   x |-> NoneZ, calls |-> 0]

Init ==
  /\ obj \in Constructed
  /\ last = NoLast
  /\ threads = NoThreads
  /\ num = NoNum

SetAlpha ==
  \E v \in AlphaVals :
    LET r == alpha_setter(obj, v)
    IN /\ obj' = r.obj
       /\ last' = [NoLast EXCEPT !.op = "set_alpha", !.arg = v,
                                 !.res = SetterRes(r.err)]
       /\ UNCHANGED <<threads, num>>

SetBeta ==
  \E v \in BetaVals :
    LET r == beta_setter(obj, v)
    IN /\ obj' = r.obj
       /\ last' = [NoLast EXCEPT !.op = "set_beta", !.arg = v,
                                 !.res = SetterRes(r.err)]
       /\ UNCHANGED <<threads, num>>

SetA ==
  \E v \in AVals :
    /\ obj' = a_assign(obj, v)
    /\ last' = [NoLast EXCEPT !.op = "set_a", !.arg = v, !.res = SetterRes("")]
    /\ UNCHANGED <<threads, num>>

SetAmp ==
  \E v \in AmpVals :
    /\ obj' = amp_assign(obj, v)
    /\ last' = [NoLast EXCEPT !.op = "set_amp", !.arg = v, !.res = SetterRes("")]
    /\ UNCHANGED <<threads, num>>

Query(q) ==
  \E p \in Points, flag \in FlagVals :
    /\ obj' = query_effect(obj, q, flag)
    /\ last' = [op |-> q, arg |-> 0, R |-> p[1], z |-> p[2], flag |-> flag,
                res |-> Call(obj, q, p[1], p[2], flag, 0)]
    /\ UNCHANGED <<threads, num>>

Evaluate == Query("_evaluate")

Rforce == Query("_Rforce")

Zforce == Query("_zforce")

Dens == Query("_dens")

Mass == Query("_mass")

R2deriv == Query("_R2deriv")

Z2deriv == Query("_z2deriv")

Rzderiv == Query("_Rzderiv")

Surfdens == Query("_surfdens")

Next ==
  \/ SetAlpha
  \/ SetBeta
  \/ SetA
  \/ SetAmp
  \/ Evaluate
  \/ Rforce
  \/ Zforce
  \/ Dens
  \/ Mass
  \/ R2deriv
  \/ Z2deriv
  \/ Rzderiv
  \/ Surfdens

Spec == Init /\ [][Next]_vars

\* construction at alpha = 1.5, beta = 4, then alpha mutations and the
\* potential and force queries
InitRebind ==
  /\ obj \in {TwoPower_init("TwoPower", amp, a, Exp(1, 1), Exp(4, 0)) :
                amp \in AmpVals, a \in AVals}
  /\ last = NoLast
  /\ threads = NoThreads
  /\ num = NoNum

NextRebind ==
  \/ SetAlpha
  \/ Evaluate
  \/ Rforce
  \/ Zforce

SpecRebind == InitRebind /\ [][NextRebind]_vars

\* several callers querying one instance that nobody mutates: a call is
\* made, other callers run, and the method body then runs on the instance
\* as it is at that moment
InitThreads ==
  /\ obj \in {o \in Constructed : o.a = 1 /\ o.amp = 1}
  /\ last = NoLast
  /\ threads = NoThreads
  /\ num = NoNum

\* the (R, z) the concurrent callers query at
ThreadPoint == <<1, 0 - 1>>

\* caller t makes a query; alone is what the call gives when nothing else
\* runs before its body does, before the instance at the call
ThreadCall(t) ==
  /\ threads[t].pc = "idle"
  /\ \E q \in Queries, flag \in FlagVals :
       threads' = [threads EXCEPT ![t] =
         [pc |-> "called", q |-> q, R |-> ThreadPoint[1], z |-> ThreadPoint[2],
          flag |-> flag,
          alone |-> Call(obj, q, ThreadPoint[1], ThreadPoint[2], flag, 0),
          before |-> obj, res |-> Blank]]
  /\ UNCHANGED <<obj, last, num>>

\* the body of caller t's query runs and returns
ThreadReturn(t) ==
  /\ threads[t].pc = "called"
  /\ obj' = query_effect(obj, threads[t].q, threads[t].flag)
  /\ threads' = [threads EXCEPT ![t].pc = "returned",
                                ![t].res = Call(obj, threads[t].q, threads[t].R,
                                                threads[t].z, threads[t].flag, 0)]
  /\ UNCHANGED <<last, num>>

\* caller t has taken its result and may call again
ThreadDone(t) ==
  /\ threads[t].pc = "returned"
  /\ threads' = [threads EXCEPT ![t] = IdleThread]
  /\ UNCHANGED <<obj, last, num>>

NextThreads ==
  \E t \in Threads :
    \/ ThreadCall(t)
    \/ ThreadReturn(t)
    \/ ThreadDone(t)

SpecThreads == InitThreads /\ [][NextThreads]_vars

\* queries worked out to numbers, on unit-amplitude profiles whose formulas
\* have a closed form: beta = 4 with alpha 0, 1 or 2, and the three presets
NumProfiles ==
  {TwoPower_init("TwoPower", 1, a, al, Exp(4, 0)) :
     a \in AVals, al \in {Exp(0, 0), Exp(1, 0), Exp(2, 0)}}
  \cup {Dehnen_init("Dehnen", 1, a, al) :
     a \in AVals, al \in {Exp(0, 0), Exp(1, 0), Exp(2, 0)}}
  \cup {TwoPowerInteger_init(1, a, al, Exp(4, 0)) :
     a \in AVals, al \in {Exp(0, 0), Exp(1, 0), Exp(2, 0)}}
  \cup {Hernquist_init(1, a) : a \in AVals}
  \cup {Jaffe_init(1, a) : a \in AVals}
  \cup {NFW_init(1, a) : a \in AVals}

InitNum ==
  /\ obj \in NumProfiles
  /\ last = NoLast
  /\ threads = NoThreads
  /\ num = NoNum

NumQueries == {"_evaluate", "_Rforce", "_zforce", "_mass"}

\* sample (R, z) with a rational radius, among them the origin
NumPoints ==
  {<<Rat(3, 10), Rat(4, 10)>>, <<Rat(4, 10), Rat(0 - 3, 10)>>,
   <<Rat(3, 1), Rat(4, 1)>>, <<Rat(1, 1), Rat(0, 1)>>,
   <<Rat(0, 1), Rat(2, 1)>>, <<Rat(0, 1), Rat(0, 1)>>}

\* sample (R, None), as the mass takes it
RadialPoints ==
  {<<Rat(1, 2), NoneZ>>, <<Rat(1, 1), NoneZ>>, <<Rat(5, 1), NoneZ>>,
   <<Rat(0, 1), NoneZ>>}

\* the formula of res does not divide by the radius
FiniteAtOrigin(res) ==
  res.formula \in {"Hernquist._evaluate", "Hernquist._mass", "Jaffe._mass",
                   "NFW._mass", "TwoPower._mass"}

\* the hypergeometric function of res's formula is one of the closed cases
HasClosedForm(res) ==
  /\ res.formula # "TwoPower._evaluate:beta3"
  /\ res.formula = "TwoPower._evaluate:general" => res.alpha = Exp(1, 0)

NumQuery ==
  \E q \in NumQueries, p \in NumPoints \cup RadialPoints, flag \in FlagVals :
    LET res == Call(obj, q, p[1], p[2], flag, 0)
    IN /\ p[2] = NoneZ => q = "_mass"
       /\ (p[2] # NoneZ /\ Radius(p[1], p[2]) = Zero) => FiniteAtOrigin(res)
       /\ HasClosedForm(res)
       /\ obj' = query_effect(obj, q, flag)
       /\ num' = [q |-> q, flag |-> flag, res |-> res,
                  val |-> IF res.kind = "value" THEN Value(res) ELSE NoValue,
                  x |-> NoneZ, calls |-> 0]
       /\ UNCHANGED <<last, threads>>

NextNum == NumQuery

SpecNum == InitNum /\ [][NextNum]_vars

\* the virial radius of an NFW profile, between assignments of a and amp
InitRvir ==
  /\ obj \in {NFW_init(amp, a) : amp \in AmpVals, a \in AVals}
  /\ last = NoLast
  /\ threads = NoThreads
  /\ num = NoNum

\* where the zero of rvir's f may lie: nowhere, below 0.01, on the ends of
\* the interval, inside it and above 100
YStars == {Rat(1, 200)} \cup {Rat(k * k * k, 100) : k \in 0..MaxRootStep}

Rvir ==
  /\ obj.cls = "NFW"
  /\ \E ystar \in YStars :
       LET r == NFW_rvir(obj, ystar)
       IN /\ obj' = r.obj
          /\ last' = [NoLast EXCEPT
                        !.op = "rvir", !.arg = ystar,
                        !.res = IF r.err = "" THEN Val(obj, "NFW.rvir", 0, 0, 0)
                                ELSE Err(r.err)]
          /\ num' = [q |-> "rvir", flag |-> "absent", res |-> last'.res,
                     val |-> r.val, x |-> r.x, calls |-> r.calls]
          /\ UNCHANGED threads

NextRvir ==
  \/ Rvir
  \/ SetA
  \/ SetAmp

SpecRvir == InitRvir /\ [][NextRvir]_vars

(* ------------------------------- claims -------------------------------- *)

Integral(x) == x % 2 = 0

ForceQueries == {"_evaluate", "_Rforce", "_zforce"}

Presets == {"NFW", "Hernquist", "Jaffe"}

RECURSIVE Chain(_)

\* the classes of the evaluators bound below an object, outermost first
Chain(o) == IF IsNone(o) THEN <<>> ELSE <<o.cls>> \o Chain(o.integerSelf)

\* the evaluator the dispatch rule of the data model selects
DispatchRule(alpha, beta) ==
  IF alpha = Exp(1, 0) /\ beta = Exp(4, 0) THEN "Hernquist"
  ELSE IF alpha = Exp(2, 0) /\ beta = Exp(4, 0) THEN "Jaffe"
  ELSE IF alpha = Exp(1, 0) /\ beta = Exp(3, 0) THEN "NFW"
  ELSE IF Integral(alpha) /\ Integral(beta) THEN "Integer"
  ELSE "TwoPower"

\* C1: on a generic profile, in every state reached by construction and
\* alpha/beta mutations, a potential or force query without the bypass flag
\* is evaluated by the evaluator the dispatch rule gives for the current
\* (alpha, beta): Hernquist, Jaffe or NFW for (1,4), (2,4), (1,3), else the
\* integer evaluator when both are integers, else the profile's own general
\* formulas with nothing bound; a bound evaluator holds the profile's alpha
\* and beta.
C1_BindingFollowsExponents ==
  obj.cls = "TwoPower" =>
    /\ \A q \in ForceQueries, p \in Points :
         LET r == Call(obj, q, p[1], p[2], "absent", 0)
         IN /\ r.kind = "value"
            /\ r.cls = DispatchRule(obj.alpha, obj.beta)
            /\ r.alpha = obj.alpha /\ r.beta = obj.beta
            /\ (r.cls = "TwoPower") = (r.depth = 0)
    /\ IsNone(obj.integerSelf) = (DispatchRule(obj.alpha, obj.beta) = "TwoPower")
    /\ ~IsNone(obj.integerSelf) =>
         /\ obj.integerSelf.cls = "Integer"
         /\ obj.integerSelf.alpha = obj.alpha
         /\ obj.integerSelf.beta = obj.beta

C1_Witness ==
  /\ obj.cls = "TwoPower"
  /\ last.op = "set_alpha" /\ last.arg = Exp(1, 0) /\ obj.beta = Exp(4, 0)
  /\ Chain(obj.integerSelf) = <<"Integer", "Hernquist">>

\* C2: a generic profile constructed with alpha = 1.5, beta = 4 has nothing
\* bound; once alpha is set to 1 every potential, forceRadial and
\* forceVertical query without the bypass flag is evaluated by the Hernquist
\* formulas with the profile's scale radius; while alpha is a non-integer
\* nothing is bound.
C2_RebindToHernquist ==
  /\ obj.alpha = Exp(1, 0) =>
       /\ \A q \in ForceQueries, p \in Points :
            LET r == Call(obj, q, p[1], p[2], "absent", 0)
            IN r.kind = "value" /\ r.formula = "Hernquist." \o q /\ r.a = obj.a
       /\ (last.op \in ForceQueries /\ last.flag = "absent") =>
            /\ last.res.kind = "value"
            /\ last.res.formula = "Hernquist." \o last.op
            /\ last.res.a = obj.a
  /\ ~Integral(obj.alpha) =>
       /\ IsNone(obj.integerSelf)
       /\ last.op \in ForceQueries => last.res.cls = "TwoPower"

C2_Witness ==
  /\ obj.alpha = Exp(1, 0)
  /\ last.op = "_Rforce" /\ last.flag = "absent"
  /\ last.res.formula = "Hernquist._Rforce"

\* C3: on an NFW, Hernquist or Jaffe instance every alpha or beta setter call
\* ends in an exception and leaves the whole object as it was, and the
\* exponents are (1,3), (1,4), (2,4) in every reachable state.
C3_PresetsFrozen ==
  /\ [][(obj.cls \in Presets /\ last'.op \in {"set_alpha", "set_beta"}) =>
          (last'.res.kind = "error" /\ obj' = obj)]_vars
  /\ [](/\ obj.cls = "NFW" => obj.alpha = Exp(1, 0) /\ obj.beta = Exp(3, 0)
        /\ obj.cls = "Hernquist" => obj.alpha = Exp(1, 0) /\ obj.beta = Exp(4, 0)
        /\ obj.cls = "Jaffe" => obj.alpha = Exp(2, 0) /\ obj.beta = Exp(4, 0))

C3_Witness ==
  /\ obj.cls = "NFW"
  /\ last.op = "set_alpha" /\ last.arg = Exp(2, 0) /\ last.res.kind = "error"
  /\ obj.alpha = Exp(1, 0) /\ obj.beta = Exp(3, 0)

\* C4: on a Dehnen profile a beta setter call ends in an exception and changes
\* nothing, an alpha setter call succeeds and stores the value, and beta is 4
\* in every reachable state.
C4_DehnenBetaFrozen ==
  /\ [][(obj.cls = "Dehnen" /\ last'.op = "set_beta") =>
          (last'.res.kind = "error" /\ obj' = obj)]_vars
  /\ [][(obj.cls = "Dehnen" /\ last'.op = "set_alpha") =>
          (last'.res.kind = "ok" /\ obj'.alpha = last'.arg)]_vars
  /\ [](obj.cls = "Dehnen" => obj.beta = Exp(4, 0))

C4_Witness ==
  /\ obj.cls = "Dehnen"
  /\ last.op = "set_beta" /\ last.arg = Exp(5, 0) /\ last.res.kind = "error"
  /\ obj.beta = Exp(4, 0)

\* C5: on the integer evaluator a setter call with a non-integer value ends
\* in ValueError and leaves the object as it was; with an integer value it
\* succeeds and stores that integer, leaving the other exponent alone.
C5_IntegerSetterValidates ==
  /\ [][(obj.cls = "Integer" /\ last'.op \in {"set_alpha", "set_beta"}
           /\ ~Integral(last'.arg)) =>
          (last'.res.kind = "error" /\ last'.res.err = "ValueError" /\ obj' = obj)]_vars
  /\ [][(obj.cls = "Integer" /\ last'.op = "set_alpha" /\ Integral(last'.arg)) =>
          (last'.res.kind = "ok" /\ obj'.alpha = last'.arg /\ obj'.beta = obj.beta)]_vars
  /\ [][(obj.cls = "Integer" /\ last'.op = "set_beta" /\ Integral(last'.arg)) =>
          (last'.res.kind = "ok" /\ obj'.beta = last'.arg /\ obj'.alpha = obj.alpha)]_vars

C5_Witness ==
  /\ obj.cls = "Integer"
  /\ last.op = "set_alpha" /\ last.arg = Exp(1, 1)
  /\ last.res.err = "ValueError"
  /\ obj.alpha = Exp(2, 0)

\* C6: assigning the scale radius or the amplitude leaves the classes of the
\* bound evaluators and the stored alpha and beta as they were.
C6_NoTransitionOnScaleOrAmp ==
  [][last'.op \in {"set_a", "set_amp"} =>
       /\ Chain(obj'.integerSelf) = Chain(obj.integerSelf)
       /\ obj'.alpha = obj.alpha /\ obj'.beta = obj.beta]_vars

C6_Witness ==
  /\ last.op = "set_a"
  /\ obj.a = last.arg
  /\ Chain(obj.integerSelf) = <<"Integer", "NFW">>
  /\ obj.integerSelf.a # obj.a

\* C7: no query, with or without the bypass flag, returning or failing,
\* changes the profile or any evaluator bound below it.
C7_QueriesDoNotMutate ==
  [][last'.op \in Queries => obj' = obj]_vars

C7_Witness ==
  /\ last.op = "_z2deriv" /\ last.flag = "True" /\ last.res.kind = "error"
  /\ ~IsNone(obj.integerSelf)

\* C8: on a generic profile with a bound evaluator, each of the nine queries
\* made without the bypass flag gives what the bound evaluator gives.
C8_AllQueriesForwarded ==
  (obj.cls = "TwoPower" /\ ~IsNone(obj.integerSelf)) =>
    \A q \in Queries, p \in Points :
      Call(obj, q, p[1], p[2], "absent", 0)
        = Call(obj.integerSelf, q, p[1], p[2], "absent", 1)

\* C9: on a dispatching profile every query accepts the bypass flag, and with
\* the flag set it is evaluated by the profile's own formulas whatever is
\* bound.
C9_FlagForcesGeneral ==
  obj.cls \in {"TwoPower", "Dehnen"} =>
    \A q \in Queries, p \in Points :
      LET r == Call(obj, q, p[1], p[2], "True", 0)
      IN r.kind = "value" /\ r.depth = 0

\* C10: on the general / integer Gamma-hypergeometric path with beta = 3 or
\* beta = 5, a second radial, second vertical or mixed derivative query ends
\* in a failure and returns no number.
C10_SecondDerivsFailAtBeta3or5 ==
  (/\ obj.cls \in {"TwoPower", "Integer"}
   /\ IsNone(obj.integerSelf)
   /\ obj.beta \in {Exp(3, 0), Exp(5, 0)}) =>
    \A q \in {"_R2deriv", "_z2deriv", "_Rzderiv"}, p \in Points :
      Call(obj, q, p[1], p[2], "absent", 0).kind = "error"

\* the eight queries other than the surface density
DeferredQueries == Queries \ {"_surfdens"}

\* C11: an integer evaluator that holds an elementary evaluator, as after
\* construction with (1,4), (2,4) or (1,3), answers each of the potential,
\* the two forces, the density, the mass and the three second derivatives
\* with the value the elementary evaluator gives; with nothing bound it
\* evaluates its own formulas.
C11_IntegerDefersEveryQuery ==
  obj.cls = "Integer" =>
    /\ (~IsNone(obj.integerSelf) /\ obj.integerSelf.cls \in Presets) =>
         \A q \in DeferredQueries, p \in Points :
           LET r == Call(obj, q, p[1], p[2], "absent", 0)
           IN /\ r.kind = "value"
              /\ r = Call(obj.integerSelf, q, p[1], p[2], "absent", 1)
    /\ IsNone(obj.integerSelf) =>
         \A q \in ForceQueries, p \in Points :
           LET r == Call(obj, q, p[1], p[2], "absent", 0)
           IN r.kind = "value" /\ r.depth = 0

\* C12: with several callers querying one instance and no exponent being
\* mutated, in any interleaving each query returns what it gives when it runs
\* alone, and the instance stays as it was when the calls were made.
C12_ConcurrentQueriesIndependent ==
  \A t \in Threads :
    /\ threads[t].pc = "returned" => threads[t].res = threads[t].alone
    /\ threads[t].pc # "idle" => threads[t].before = obj

C12_Witness ==
  /\ threads["t1"].pc = "returned" /\ threads["t2"].pc = "returned"
  /\ threads["t1"].q = "_evaluate" /\ threads["t1"].flag = "True"
  /\ threads["t1"].res.depth = 0
  /\ threads["t2"].q = "_Rforce" /\ threads["t2"].flag = "absent"
  /\ threads["t2"].res.formula = "Hernquist._Rforce"

RECURSIVE Bottom(_)

\* the evaluator at the end of the chain of bound evaluators below o
Bottom(o) == IF IsNone(o.integerSelf) THEN o ELSE Bottom(o.integerSelf)

\* C13: on a generic profile with alpha = 1, beta = 4, a = 1, at (0.3, 0.4)
\* and every other sample point with r > 0, the potential and the two forces
\* evaluated by the bound Hernquist evaluator equal the ones evaluated by the
\* profile's general formulas under the bypass flag, and the mass of the
\* bound Hernquist evaluator equals the mass of the general formula.
C13_HernquistAgreesWithGeneral ==
  (/\ obj.cls = "TwoPower" /\ obj.a = 1
   /\ obj.alpha = Exp(1, 0) /\ obj.beta = Exp(4, 0)) =>
    /\ \A p \in NumPoints :
      Radius(p[1], p[2]) # Zero =>
        /\ \A q \in ForceQueries :
             LET bound == Call(obj, q, p[1], p[2], "absent", 0)
                 general == Call(obj, q, p[1], p[2], "True", 0)
             IN /\ bound.cls = "Hernquist" /\ general.cls = "TwoPower"
                /\ Value(bound) = Value(general)
        /\ LET bound == Call(Bottom(obj), "_mass", p[1], p[2], "absent", 0)
               general == Call(obj, "_mass", p[1], p[2], "absent", 0)
           IN /\ bound.cls = "Hernquist" /\ general.cls = "TwoPower"
              /\ Value(bound) = Value(general)
    /\ (/\ num.q \in ForceQueries /\ num.flag = "absent"
        /\ Radius(num.res.R, num.res.z) # Zero) =>
         /\ num.res.formula = "Hernquist." \o num.q
         /\ num.val = Value(Call(obj, num.q, num.res.R, num.res.z, "True", 0))

C13_Witness ==
  /\ obj.cls = "TwoPower" /\ obj.a = 1
  /\ obj.alpha = Exp(1, 0) /\ obj.beta = Exp(4, 0)
  /\ num.res.kind = "value"
  /\ num.res.formula = "TwoPower._Rforce"
  /\ num.res.R = Rat(3, 10) /\ num.res.z = Rat(4, 10)
  /\ num.val = V(Rat(0 - 2, 15))
  /\ num.val = Value(Call(obj, "_Rforce", Rat(3, 10), Rat(4, 10), "absent", 0))

\* C14: with a = 1 the Hernquist potential at (0, 0) is -1/2, the Jaffe mass
\* at (1, 0) is 1/2 and the NFW potential at (1, 0) is -ln(2).
C14_KnownValues ==
  /\ (obj.cls = "Hernquist" /\ obj.a = 1) =>
       Value(Call(obj, "_evaluate", Zero, Zero, "absent", 0)) = V(Rat(0 - 1, 2))
  /\ (obj.cls = "Jaffe" /\ obj.a = 1) =>
       Value(Call(obj, "_mass", One, Zero, "absent", 0)) = V(Rat(1, 2))
  /\ (obj.cls = "NFW" /\ obj.a = 1) =>
       Value(Call(obj, "_evaluate", One, Zero, "absent", 0))
         = [rat |-> Zero, lnc |-> Rat(0 - 1, 1), lnarg |-> Rat(2, 1)]
  /\ (/\ num.res.formula = "Hernquist._evaluate" /\ num.res.a = 1
      /\ num.res.R = Zero /\ num.res.z = Zero) =>
       num.val = V(Rat(0 - 1, 2))
  /\ (/\ num.res.formula = "Jaffe._mass" /\ num.res.a = 1
      /\ num.res.R = One /\ num.res.z = Zero) =>
       num.val = V(Rat(1, 2))
  /\ (/\ num.res.formula = "NFW._evaluate" /\ num.res.a = 1
      /\ num.res.R = One /\ num.res.z = Zero) =>
       num.val = [rat |-> Zero, lnc |-> Rat(0 - 1, 1), lnarg |-> Rat(2, 1)]

C14_Witness ==
  /\ obj.cls = "NFW" /\ obj.a = 1
  /\ num.res.kind = "value"
  /\ num.res.formula = "NFW._evaluate"
  /\ num.res.R = One /\ num.res.z = Zero
  /\ num.val.lnc = Rat(0 - 1, 1) /\ num.val.lnarg = Rat(2, 1)

\* C15: on a Dehnen profile, after construction and any alpha mutations, an
\* integer evaluator with exponents (alpha, 4) is bound exactly when alpha is
\* a whole number, and nothing is bound otherwise.
C15_DehnenBindingFollowsAlpha ==
  obj.cls = "Dehnen" =>
    /\ Integral(obj.alpha) =>
         /\ ~IsNone(obj.integerSelf)
         /\ obj.integerSelf.cls = "Integer"
         /\ obj.integerSelf.alpha = obj.alpha
         /\ obj.integerSelf.beta = Exp(4, 0)
    /\ ~Integral(obj.alpha) => IsNone(obj.integerSelf)

C15_Witness ==
  /\ obj.cls = "Dehnen"
  /\ last.op = "set_alpha" /\ last.arg = Exp(2, 0) /\ last.res.kind = "ok"
  /\ Chain(obj.integerSelf) = <<"Integer", "Jaffe">>

\* C16: on a Dehnen profile with a whole alpha, the second radial and the
\* mixed derivative return, without an error, what the bound evaluator gives
\* for the caller's coordinates.
C16_DehnenDerivsForwarded ==
  (obj.cls = "Dehnen" /\ Integral(obj.alpha)) =>
    \A q \in {"_R2deriv", "_Rzderiv"}, p \in Points :
      LET r == Call(obj, q, p[1], p[2], "absent", 0)
      IN /\ r.kind = "value"
         /\ r = Call(obj.integerSelf, q, p[1], p[2], "absent", 1)

\* C17: on the integer evaluator and on NFW the second vertical derivative at
\* (R, z) returns what the second radial derivative returns at (|z|, R).
C17_VerticalIsRadialSwapped ==
  obj.cls \in {"Integer", "NFW"} =>
    \A p \in Points :
      LET r == Call(obj, "_z2deriv", p[1], p[2], "absent", 0)
      IN /\ r.kind = "value"
         /\ r = Call(obj, "_R2deriv", fabs(p[2]), p[1], "absent", 0)

\* the two forms of the general potential
GeneralPotentials == {"TwoPower._evaluate:beta3", "TwoPower._evaluate:general"}

\* C18: a potential query with nothing bound or with the bypass flag set is
\* evaluated by the general path, and the general path evaluates the beta = 3
\* closed form exactly when beta is 3 and the form with Gamma(beta - 3)
\* for every other beta.
C18_Beta3ClosedForm ==
  /\ \A p \in Points, flag \in FlagVals :
       LET r == Call(obj, "_evaluate", p[1], p[2], flag, 0)
       IN /\ (/\ obj.cls \in {"TwoPower", "Dehnen"}
              /\ (flag = "True" \/ IsNone(obj.integerSelf))) =>
                (r.formula \in GeneralPotentials /\ r.depth = 0)
          /\ r.formula \in GeneralPotentials =>
               (r.formula = "TwoPower._evaluate:beta3") = (r.beta = Exp(3, 0))
  /\ (last.op = "_evaluate" /\ last.res.formula \in GeneralPotentials) =>
       (last.res.formula = "TwoPower._evaluate:beta3") = (last.res.beta = Exp(3, 0))

C18_Witness ==
  /\ obj.cls = "TwoPower"
  /\ Chain(obj.integerSelf) = <<"Integer", "NFW">>
  /\ last.op = "_evaluate" /\ last.flag = "True"
  /\ last.res.formula = "TwoPower._evaluate:beta3"
  /\ last.res.beta = Exp(3, 0) /\ last.res.depth = 0

\* C19: in the mass of the general, Hernquist, Jaffe and NFW evaluators the
\* radius is R when z is None and sqrt(R^2 + z^2) otherwise: the mass at
\* (R, None) equals the mass at (R, 0) for R >= 0, and the mass at (R, z)
\* equals the mass at (sqrt(R^2 + z^2), None).
C19_MassRadius ==
  /\ \A e \in {obj, Bottom(obj)} :
       /\ \A p \in RadialPoints :
            Value(Call(e, "_mass", p[1], NoneZ, "absent", 0))
              = Value(Call(e, "_mass", p[1], Zero, "absent", 0))
       /\ \A p \in NumPoints :
            Value(Call(e, "_mass", p[1], p[2], "absent", 0))
              = Value(Call(e, "_mass", Radius(p[1], p[2]), NoneZ, "absent", 0))
  /\ (num.q = "_mass" /\ num.res.kind = "value") =>
       num.val = Value(Call(obj, "_mass", MassRadius(num.res.R, num.res.z),
                            NoneZ, "absent", 0))

C19_Witness ==
  /\ obj.cls = "Jaffe"
  /\ num.q = "_mass" /\ num.res.kind = "value"
  /\ num.res.R = Rat(5, 1) /\ num.res.z = NoneZ
  /\ num.val = Value(Call(obj, "_mass", Rat(3, 1), Rat(4, 1), "absent", 0))
  /\ num.val = Value(Call(obj, "_mass", Rat(5, 1), Zero, "absent", 0))

\* C20: a virial-radius call makes one search on [0.01, 100]; when the zero
\* lies in that interval the call returns it multiplied by the scale radius
\* the profile has at the call; otherwise the call ends in the root finder's
\* ValueError with no value and no second search; the profile is left as it
\* was in either case.
C20_RvirBracketAndFailure ==
  [][last'.op = "rvir" =>
       /\ obj' = obj
       /\ num'.calls = 1
       /\ IF /\ last'.arg # Zero
             /\ RLeq(Rat(1, 100), last'.arg) /\ RLeq(last'.arg, Rat(100, 1))
          THEN /\ last'.res.kind = "value"
               /\ num'.x = last'.arg
               /\ num'.val = V(RMul(last'.arg, Rat(obj.a, 1)))
          ELSE /\ last'.res.kind = "error" /\ last'.res.err = "ValueError"
               /\ num'.x = NoneZ
               /\ num'.val = NoValue]_vars

C20_Witness ==
  /\ last.op = "rvir" /\ last.arg = Rat(1, 200)
  /\ last.res.kind = "error" /\ last.res.err = "ValueError"
  /\ num.calls = 1 /\ num.val = NoValue
  /\ obj.cls = "NFW" /\ obj.a = 2

RECURSIVE SameScale(_, _)

\* every evaluator from o downwards holds the scale radius a
SameScale(o, a) == IsNone(o) \/ (o.a = a /\ SameScale(o.integerSelf, a))

\* C21: on a generic profile, after construction and any alpha, beta and
\* scale-radius mutations, every evaluator bound below the profile holds the
\* profile's scale radius, so a query evaluates with the same a whether it
\* is forwarded or made with the bypass flag.
C21_BoundScaleFollowsProfile ==
  obj.cls = "TwoPower" =>
    /\ SameScale(obj.integerSelf, obj.a)
    /\ \A q \in ForceQueries, p \in Points :
         /\ Call(obj, q, p[1], p[2], "absent", 0).a = obj.a
         /\ Call(obj, q, p[1], p[2], "True", 0).a = obj.a

\* C22: the alpha and beta held by an integer evaluator are whole numbers in
\* every reachable state: after construction with any arguments and after
\* any setter calls, successful or failed.
C22_IntegerExponentsWhole ==
  obj.cls = "Integer" => (Integral(obj.alpha) /\ Integral(obj.beta))

\* the general formulas of the potential and the two forces
GeneralForms ==
  GeneralPotentials \cup {"TwoPower._Rforce", "TwoPower._zforce"}

\* C23: on an integer evaluator constructed directly, after any alpha and
\* beta mutations, a potential or force query is answered by the Hernquist,
\* Jaffe or NFW formulas exactly when the current (alpha, beta) is (1,4),
\* (2,4) or (1,3), and by the general formulas with the current alpha and
\* beta otherwise.
C23_IntegerRebindsOnMutation ==
  obj.cls = "Integer" =>
    \A q \in ForceQueries, p \in Points :
      LET r == Call(obj, q, p[1], p[2], "absent", 0)
          rule == DispatchRule(obj.alpha, obj.beta)
      IN /\ r.kind = "value"
         /\ r.alpha = obj.alpha /\ r.beta = obj.beta
         /\ IF rule \in Presets
            THEN r.cls = rule /\ r.formula = rule \o "." \o q
            ELSE r.cls = "Integer" /\ r.formula \in GeneralForms

C23_Witness ==
  /\ obj.cls = "Integer"
  /\ obj.alpha = Exp(1, 0) /\ obj.beta = Exp(3, 0)
  /\ Chain(obj.integerSelf) = <<"Integer", "NFW">>
  /\ last.op = "_zforce" /\ last.flag = "absent"
  /\ last.res.formula = "NFW._zforce" /\ last.res.depth = 2

RECURSIVE PresetsUnbound(_)

\* no Hernquist, Jaffe or NFW evaluator from o downwards has one bound
PresetsUnbound(o) ==
  \/ IsNone(o)
  \/ /\ o.cls \in Presets => IsNone(o.integerSelf)
     /\ PresetsUnbound(o.integerSelf)

\* C24: Hernquist, Jaffe and NFW evaluators have nothing bound, wherever
\* they stand; at most two evaluators are nested below any profile; and a
\* potential or force query that is forwarded ends in a closed form after at
\* most two forwarding steps.
C24_DelegationBounded ==
  /\ PresetsUnbound(obj)
  /\ Len(Chain(obj.integerSelf)) <= 2
  /\ \A q \in ForceQueries, p \in Points :
       LET r == Call(obj, q, p[1], p[2], "absent", 0)
       IN r.kind = "value" /\ r.depth <= 2
  /\ (last.op \in ForceQueries /\ last.flag = "absent") =>
       (last.res.kind = "value" /\ last.res.depth <= 2)

C24_Witness ==
  /\ obj.cls = "TwoPower"
  /\ Chain(obj.integerSelf) = <<"Integer", "Jaffe">>
  /\ IsNone(obj.integerSelf.integerSelf.integerSelf)
  /\ last.op = "_evaluate" /\ last.flag = "absent"
  /\ last.res.formula = "Jaffe._evaluate" /\ last.res.depth = 2

====
